---- MODULE Spec2Model ----
(***************************************************************************)
(* A model of wptrunner/update.py: the mirror of the upstream repository   *)
(* (WebPlatformTests), the local tree variants (NoVCSTree, HgTree,         *)
(* GitTree) and the orchestration (run_update, sync_tests,                 *)
(* update_metadata, main).                                                 *)
(*                                                                         *)
(* The git and hg command lines the code issues are modelled by what the   *)
(* commands do to a repository; each such operator names the command.      *)
(***************************************************************************)
EXTENDS Integers, Sequences, FiniteSets, TLC

VARIABLES
  remote,      \* the upstream repository: branch name -> commit (NoCommit: no such branch)
  clone,       \* the repository at repo_path (a record, see NoRepo / GitClone)
  wpt,         \* the WebPlatformTests object, or NoObject before construction
  made,        \* how many WebPlatformTests objects have been constructed (uuid source)
  mlast,       \* what the last mirror call did: op, exception, commands issued, ...
  tree,        \* what HEAD of the clone tracks: its files and its submodules' files
  dest,        \* the files under the destination directory of copy_work_tree
  clast,       \* what the last copy_work_tree call did
  local_tree,  \* the local tree object (NoVCSTree, HgTree or GitTree), or NoObject
  wc,          \* the working copy at the current directory and its hg / git state
  tlast,       \* what the last local tree call did, and what was called so far
  config,      \* config["command-args"]: patch, no_check_clean, sync, run_log, rev
  pc,          \* where the process is in main / run_update / sync_tests / update_metadata
  calls,       \* the calls made so far on the mirror, the manifest and the local tree
  manifest,    \* the revision recorded in the manifest file under paths["metadata"]
  frame,       \* the locals of the run, what it wrote to stderr, the pending exception
  exit_code    \* the exit code of the process, None while it runs

mirrorVars == <<remote, clone, wpt, made, mlast>>
copyVars == <<tree, dest, clast>>
treeVars == <<local_tree, wc, tlast>>
runVars == <<config, pc, calls, manifest, frame, exit_code>>

vars == <<remote, clone, wpt, made, mlast, tree, dest, clast, local_tree, wc, tlast,
          config, pc, calls, manifest, frame, exit_code>>

-----------------------------------------------------------------------------
(* Bounds *)

\* commits are numbered 1..MaxCommit in the order the upstream creates them
MaxCommit == 3
\* how many WebPlatformTests objects (hence isolation branches) are constructed
MaxRuns == 2

-----------------------------------------------------------------------------
(* Values *)

NoCommit == 0
NoObject == [none |-> TRUE]
\* Python's None
None == "None"
Commits == 1..MaxCommit
\* the branches the upstream may hold; its HEAD is master
RemoteBranches == {"master", "dev"}
RemoteHEAD == "master"
\* the values of rev given to WebPlatformTests: a branch name (run_update, lines
\* 383-385) or the constructor's default "origin/master" (line 35)
TargetRevs == {"master", "dev", "origin/master"}

\* the remote-tracking name git clone gives an upstream branch
Tracking(b) == "origin/" \o b

\* uuid.uuid4().hex: a name no earlier object and no user branch has
Uuid(n) == "uuid" \o ToString(n)

\* a function as a set of updates
Put(f, k, v) == [x \in (DOMAIN f) \cup {k} |-> IF x = k THEN v ELSE f[x]]
EmptyMap == [x \in {} |-> NoCommit]

-----------------------------------------------------------------------------
(* The clone at repo_path *)

\* repo_path while it is no git repository (missing, or an empty directory)
NoRepo ==
  [isRepo |-> FALSE, heads |-> EmptyMap, remotes |-> EmptyMap,
   HEAD |-> None, detached |-> NoCommit, dirty |-> FALSE]

\* vcs.is_git_root(path): git rev-parse --show-cdup prints an empty line
is_git_root(c) == c.isRepo

\* git rev-parse HEAD
GitRevParseHEAD(c) ==
  IF c.HEAD = None THEN c.detached ELSE c.heads[c.HEAD]

\* a name as git resolves it in the clone: a local branch first, then a
\* remote-tracking branch; NoCommit when it names nothing
ResolveLocal(c, name) ==
  IF name \in DOMAIN c.heads THEN c.heads[name]
  ELSE IF name \in DOMAIN c.remotes THEN c.remotes[name]
  ELSE NoCommit

\* a refspec source as the upstream resolves it for git fetch: one of its branches
ResolveRemote(r, name) ==
  IF name \in RemoteBranches THEN r[name] ELSE NoCommit

\* git clone <remote_url> . : a local branch for the upstream's HEAD, a
\* remote-tracking branch for each upstream branch
GitClone(r, netOk) ==
  IF ~netOk THEN [ok |-> FALSE, clone |-> NoRepo]
  ELSE [ok |-> TRUE,
        clone |-> [isRepo |-> TRUE,
                   heads |-> Put(EmptyMap, RemoteHEAD, r[RemoteHEAD]),
                   remotes |-> [t \in {Tracking(b) : b \in {x \in RemoteBranches : r[x] # NoCommit}} |->
                                  r[CHOOSE b \in RemoteBranches : Tracking(b) = t]],
                   HEAD |-> RemoteHEAD, detached |-> NoCommit, dirty |-> FALSE]]

\* git checkout -b <branch> <start>
GitCheckoutNew(c, branch, start) ==
  IF branch \in DOMAIN c.heads \/ ResolveLocal(c, start) = NoCommit
  THEN [ok |-> FALSE, clone |-> c]
  ELSE [ok |-> TRUE,
        clone |-> [c EXCEPT !.heads = Put(c.heads, branch, ResolveLocal(c, start)),
                            !.HEAD = branch, !.detached = NoCommit]]

\* git status --porcelain: one line per changed or untracked path
GitStatusPorcelain(c) == IF c.dirty THEN <<" M file">> ELSE <<>>

\* git fetch <remote_url> <src>:<dst> : dst must be a new branch (it is a fresh uuid)
GitFetch(c, r, src, dst, netOk) ==
  IF ~netOk \/ ResolveRemote(r, src) = NoCommit \/ dst \in DOMAIN c.heads
  THEN [ok |-> FALSE, clone |-> c]
  ELSE [ok |-> TRUE,
        clone |-> [c EXCEPT !.heads = Put(c.heads, dst, ResolveRemote(r, src))]]

\* git checkout <branch>
GitCheckout(c, branch) ==
  IF branch \notin DOMAIN c.heads THEN [ok |-> FALSE, clone |-> c]
  ELSE [ok |-> TRUE, clone |-> [c EXCEPT !.HEAD = branch, !.detached = NoCommit]]

-----------------------------------------------------------------------------
(* class WebPlatformTests *)

\* WebPlatformTests.__init__
WebPlatformTests(rev, n) == [target_rev |-> rev, local_branch |-> Uuid(n)]

\* the result of a mirror call: the clone afterwards, the exception raised
\* (None: it returned), the git commands issued in order
Ret(c, exc, cmds) == [clone |-> c, exc |-> exc, cmds |-> cmds]

\* the two submodule commands that end update(); net tells whether they can
\* reach the submodules' upstreams
UpdateSubmodules(c, cmds, net) ==
  IF net THEN Ret(c, None, cmds \o <<"submodule init", "submodule update">>)
  ELSE Ret(c, "CalledProcessError", cmds \o <<"submodule init", "submodule update">>)

\* the fresh-clone branch of update()
UpdateByClone(self, c, r, net) ==
  LET cl == GitClone(r, net.clone)
      co == GitCheckoutNew(cl.clone, self.local_branch, self.target_rev)
  IN  IF ~cl.ok THEN Ret(cl.clone, "CalledProcessError", <<"clone">>)
      ELSE IF ~co.ok THEN Ret(co.clone, "CalledProcessError", <<"clone", "checkout">>)
      ELSE UpdateSubmodules(co.clone, <<"clone", "checkout">>, net.sub)

\* the existing-clone branch of update(), with the isolation branch made
\* from the clone's HEAD instead of from what was fetched
UpdateByFetchFromHead(self, c, r, net) ==
  LET fe == GitFetch(c, r, self.target_rev, self.local_branch, net.fetch)
      co == GitCheckoutNew(c, self.local_branch, c.HEAD)
  IN  IF GitStatusPorcelain(c) # <<>> THEN Ret(c, "RepositoryError", <<"status">>)
      ELSE IF ~fe.ok THEN Ret(c, "CalledProcessError", <<"status", "fetch">>)
      ELSE IF ~co.ok THEN Ret(co.clone, "CalledProcessError", <<"status", "fetch", "checkout">>)
      ELSE UpdateSubmodules(co.clone, <<"status", "fetch", "checkout">>, net.sub)

\* the existing-clone branch of update(), with uncommitted changes discarded
\* instead of refused
UpdateByFetchDiscard(self, c, r, net) ==
  LET cc == [c EXCEPT !.dirty = FALSE]
      fe == GitFetch(cc, r, self.target_rev, self.local_branch, net.fetch)
      co == GitCheckout(fe.clone, self.local_branch)
  IN  IF ~fe.ok THEN Ret(fe.clone, "CalledProcessError", <<"status", "fetch">>)
      ELSE IF ~co.ok THEN Ret(co.clone, "CalledProcessError", <<"status", "fetch", "checkout">>)
      ELSE UpdateSubmodules(co.clone, <<"status", "fetch", "checkout">>, net.sub)

\* the existing-clone branch of update()
UpdateByFetch(self, c, r, net) ==
  LET fe == GitFetch(c, r, self.target_rev, self.local_branch, net.fetch)
      co == GitCheckout(fe.clone, self.local_branch)
  IN  IF GitStatusPorcelain(c) # <<>> THEN Ret(c, "RepositoryError", <<"status">>)
      ELSE IF ~fe.ok THEN Ret(fe.clone, "CalledProcessError", <<"status", "fetch">>)
      ELSE IF ~co.ok THEN Ret(co.clone, "CalledProcessError", <<"status", "fetch", "checkout">>)
      ELSE UpdateSubmodules(co.clone, <<"status", "fetch", "checkout">>, net.sub)

\* WebPlatformTests.update
update(self, c, r, net) ==
  IF ~is_git_root(c) THEN UpdateByClone(self, c, r, net)
  ELSE UpdateByFetch(self, c, r, net)

\* the hash git prints for a commit
Hash(n) == "c" \o ToString(n)

\* WebPlatformTests.rev
rev(c) == IF is_git_root(c) THEN Hash(GitRevParseHEAD(c)) ELSE None

\* the commit a hash names in the clone, NoCommit when it names none
ResolveHash(c, h) ==
  IF \E n \in Commits : Hash(n) = h THEN CHOOSE n \in Commits : Hash(n) = h ELSE NoCommit

\* git checkout <hash>: HEAD is detached at the commit; local changes are
\* carried along when the commit is the one checked out already, and make
\* the checkout of another commit fail
GitCheckoutDetached(c, h) ==
  IF ResolveHash(c, h) = NoCommit \/ (c.dirty /\ ResolveHash(c, h) # GitRevParseHEAD(c))
  THEN [ok |-> FALSE, clone |-> c]
  ELSE [ok |-> TRUE, clone |-> [c EXCEPT !.HEAD = None, !.detached = ResolveHash(c, h)]]

\* git branch -D <branch>: refused for a branch that does not exist or is checked out
GitBranchDelete(c, branch) ==
  IF branch \notin DOMAIN c.heads \/ c.HEAD = branch THEN [ok |-> FALSE, clone |-> c]
  ELSE [ok |-> TRUE,
        clone |-> [c EXCEPT !.heads = [x \in (DOMAIN c.heads) \ {branch} |-> c.heads[x]]]]

\* WebPlatformTests.clean: self.rev is read when clean() runs
clean(self, c) ==
  LET co == GitCheckoutDetached(c, rev(c))
      de == GitBranchDelete(co.clone, self.local_branch)
  IN  IF ~co.ok THEN Ret(co.clone, "CalledProcessError", <<"checkout">>)
      ELSE IF ~de.ok THEN Ret(de.clone, "CalledProcessError", <<"checkout", "branch -D">>)
      ELSE Ret(de.clone, None, <<"checkout", "branch -D">>)

\* the commit target_rev names on the upstream when update() is called; the
\* default "origin/master" names the upstream's master
TargetOnRemote(r, t) == ResolveRemote(r, IF t = "origin/master" THEN "master" ELSE t)

\* no mirror call yet on the current object
NoCall == [op |-> "none", exc |-> None, cmds |-> <<>>, target |-> NoCommit, before |-> NoRepo]

\* which network steps succeed during one update()
Nets == [clone : BOOLEAN, fetch : BOOLEAN, sub : BOOLEAN]

-----------------------------------------------------------------------------
(* Paths and the tracked tree.  A path is the sequence of its components;  *)
(* "." is the directory itself, as os.path.relpath and os.path.join leave  *)
(* it in a path ("./a.html").                                              *)

\* os.path.join
Join(a, b) == a \o b

\* the file a path names: "." components dropped
Norm(p) == SelectSeq(p, LAMBDA x : x # ".")

\* d is a directory above the file p
Under(d, p) == Len(d) < Len(p) /\ SubSeq(p, 1, Len(d)) = d

\* the files the main repository may track at HEAD
MainFiles == {<<"a.html">>, <<"dom", "b.html">>, <<"testharness_runner.html">>}
\* the files the submodule at resources may track
ResourcesFiles == {<<"testharness.js">>, <<"testharnessreport.js">>}
\* the files the submodule at tools may track
ToolsFiles == {<<"manifest.py">>}
\* files an earlier run, or the operator, may have left in the destination
StaleFiles == {<<"old.html">>, <<"a.html">>, <<"resources", "stale.js">>,
               <<"resources", "testharnessreport.js">>}

\* a function from the submodule paths present to the files each tracks
SubmoduleSets ==
  {[x \in {} |-> {}]}
    \cup {Put([x \in {} |-> {}], <<"resources">>, fs) : fs \in SUBSET ResourcesFiles}
    \cup {Put([x \in {} |-> {}], <<"tools">>, fs) : fs \in SUBSET ToolsFiles}
    \cup {Put(Put([x \in {} |-> {}], <<"resources">>, fs), <<"tools">>, gs) :
            fs \in SUBSET ResourcesFiles, gs \in SUBSET ToolsFiles}

\* what HEAD tracks: the main repository's files, and for each submodule
\* (a gitlink entry of the main tree) the files it tracks
Trees == [files : SUBSET MainFiles, subs : SubmoduleSets]
EmptyTree == [files |-> {}, subs |-> [x \in {} |-> {}]]

\* git ls-tree -r --name-only HEAD in the main repository: every file, and
\* every gitlink (a submodule's path is an entry of the tree that holds it)
GitLsTreeMain(t) == t.files \cup DOMAIN t.subs

\* git ls-tree -r --name-only HEAD in the submodule at path s
GitLsTreeSub(t, s) == t.subs[s]

\* WebPlatformTests._submodules: the paths git submodule status lists
submodules(t) == DOMAIN t.subs

\* WebPlatformTests._tree_paths: rel_path is "." for the main repository
\* and the submodule's path for a submodule
tree_paths(t) ==
  {Join(<<".">>, item) : item \in GitLsTreeMain(t)}
    \cup UNION {{Join(s, item) : item \in GitLsTreeSub(t, s)} : s \in submodules(t)}

\* os.path.isdir(source_path) in the clone's working tree: of the paths
\* git lists, the submodules' directories
isdir(t, p) == Norm(p) \in DOMAIN t.subs

\* the two overlay files and where they go (lines 117-118)
OverlayRunner == <<"testharness_runner.html">>
OverlayReport == <<"resources", "testharnessreport.js">>
Overlays == {OverlayRunner, OverlayReport}

\* lines 100-105: every entry of dest is removed, directories recursively
WipeFilesOnly(d) == {f \in d : Len(f) > 1}
Wipe(d) == {}

\* lines 107-115: every listed path that is no directory is copied
CopyTracked(t, d) ==
  d \cup {Norm(p) : p \in {q \in tree_paths(t) : ~isdir(t, q)}}

\* WebPlatformTests.copy_work_tree: shutil.copy2 of the second overlay
\* raises IOError when dest/resources does not exist
copy_work_tree(t, d) ==
  LET copied == CopyTracked(t, Wipe(d))
      first == copied \cup {OverlayRunner}
  IN  IF \E f \in first : Under(<<"resources">>, f)
      THEN [dest |-> first \cup {OverlayReport}, exc |-> None]
      ELSE [dest |-> first, exc |-> "IOError"]

NoCopy == [op |-> "none", exc |-> None, before |-> {}]

-----------------------------------------------------------------------------
(* The working copy at the current directory.  Its files are grouped by    *)
(* the path they are under: paths["test"], paths["metadata"], or anything  *)
(* else.  changed holds the groups with uncommitted changes, added those   *)
(* an add command has put under version control or staged.                 *)

Areas == {"test", "metadata", "other"}

\* a working copy with no changes, of the given kinds of repository
FreshWorkingCopy(hg, git) ==
  [inHg |-> hg, inGit |-> git, changed |-> {}, added |-> {},
   gbranch |-> IF git THEN "master" ELSE None,
   gbranches |-> IF git THEN {"master"} ELSE {},
   gcommits |-> <<>>,
   hseries |-> <<>>, hunapplied |-> {}]

NoWorkingCopy == FreshWorkingCopy(FALSE, FALSE)

\* the include argument of update_patch: None, or a list of paths
IncludeNone == [given |-> FALSE, items |-> {}]
Include(items) == [given |-> TRUE, items |-> items]

\* the result of a local tree call: the object and the working copy
\* afterwards, the exception raised (None: it returned)
TRet(self, w, exc) == [self |-> self, wc |-> w, exc |-> exc]

\* the patch names and messages sync_tests and update_metadata build (bug is None)
SyncPatchNameFixed(r) == "web-platform-tests_update"
SyncPatchName(r) == "web-platform-tests_update_" \o r
SyncPatchMessage(r) == "Bug 0 - Update web-platform-tests to revision " \o r
MetaPatchName(r) == "web-platform-tests_update_" \o r \o "_metadata"
MetaPatchMessage(r) == "Bug 0 - Update web-platform-tests expected data to revision " \o r

-----------------------------------------------------------------------------
(* class NoVCSTree *)

NoVCSTree == [cls |-> "NoVCSTree", message |-> None]
NoVCSTree_is_type(w) == TRUE
NoVCSTree_is_clean(self, w) == TRUE
NoVCSTree_add_new(self, w, prefix) == TRet(self, w, None)
NoVCSTree_create_patch(self, w, patch_name, message) == TRet(self, w, None)
NoVCSTree_update_patch(self, w, include) == TRet(self, w, None)
NoVCSTree_commit_patch(self, w) == TRet(self, w, None)

-----------------------------------------------------------------------------
(* class HgTree *)

HgTree == [cls |-> "HgTree", message |-> None]

\* hg root succeeds inside a Mercurial repository
HgTree_is_type(w) == w.inHg

\* hg status: one line per changed, added or unknown file, none when there are none
HgStatus(w) ==
  (IF "test" \in w.changed THEN <<"M test">> ELSE <<>>)
    \o (IF "metadata" \in w.changed THEN <<"M metadata">> ELSE <<>>)
    \o (IF "other" \in w.changed THEN <<"M other">> ELSE <<>>)

HgTree_is_clean(self, w) == HgStatus(w) = <<>>

\* hg add [-I prefix]
HgTree_add_new(self, w, prefix) ==
  TRet(self,
       [w EXCEPT !.added = @ \cup (IF prefix = None THEN w.changed ELSE w.changed \cap {prefix})],
       None)

\* the names in the patch queue
HgPatchNames(w) == {w.hseries[i].name : i \in DOMAIN w.hseries} \cup w.hunapplied

\* hg qinit (its failure is swallowed), then hg qnew patch_name -X root -m message:
\* a new, empty patch on top of the applied ones; fails when the name is taken
HgTree_create_patch(self, w, patch_name, message) ==
  IF patch_name \in HgPatchNames(w) THEN TRet(self, w, "CalledProcessError")
  ELSE TRet(self,
            [w EXCEPT !.hseries = Append(@, [name |-> patch_name, message |-> message, paths |-> {}])],
            None)

\* hg qrefresh [-I item ...]: the changes (under the items) go into the top
\* applied patch; fails when no patch is applied
HgTree_update_patch(self, w, include) ==
  LET taken == IF include.given THEN w.changed \cap include.items ELSE w.changed
      top == Len(w.hseries)
  IN  IF top = 0 THEN TRet(self, w, "CalledProcessError")
      ELSE TRet(self,
                [w EXCEPT !.hseries[top].paths = @ \cup taken,
                          !.changed = @ \ taken, !.added = @ \ taken],
                None)

\* the attributes an HgTree object has: the class's name, and those __init__ sets
HgTreeAttributes == {"name", "root", "hg"}

\* hg qfinish with neither a revision nor --applied: hg aborts, no revisions specified
HgQFinish(w) == [ok |-> FALSE, wc |-> w]

\* HgTree.commit_patch: the argument self.repo_root is evaluated before hg is called
HgTree_commit_patch(self, w) ==
  IF "repo_root" \notin HgTreeAttributes THEN TRet(self, w, "AttributeError")
  ELSE TRet(self, HgQFinish(w).wc, IF HgQFinish(w).ok THEN None ELSE "CalledProcessError")

-----------------------------------------------------------------------------
(* class GitTree *)

GitTree == [cls |-> "GitTree", message |-> None]

\* git rev-parse --show-toplevel succeeds inside a git working tree
GitTree_is_type(w) == w.inGit

\* git status (the long format): the branch line, then the changes or the
\* line that says there are none
GitStatus(w) ==
  <<"On branch " \o w.gbranch>>
    \o (IF w.changed = {} THEN <<"nothing to commit, working directory clean">>
        ELSE <<"Changes not staged for commit:">>)

GitTree_is_clean(self, w) == GitStatus(w) = <<>>

\* git add -a (no such option: git exits 129), or git add --no-ignore-removal prefix
GitTree_add_new(self, w, prefix) ==
  IF prefix = None THEN TRet(self, w, "CalledProcessError")
  ELSE TRet(self, [w EXCEPT !.added = @ \cup (w.changed \cap {prefix})], None)

\* git checkout -b patch_name, with the message stored only once it succeeded
GitTree_create_patch_then_message(self, w, patch_name, message) ==
  IF patch_name \in w.gbranches
  THEN TRet(self, w, "CalledProcessError")
  ELSE TRet([self EXCEPT !.message = message],
            [w EXCEPT !.gbranches = @ \cup {patch_name}, !.gbranch = patch_name],
            None)

\* git checkout -b patch_name, after the message is stored
GitTree_create_patch(self, w, patch_name, message) ==
  IF patch_name \in w.gbranches
  THEN TRet([self EXCEPT !.message = message], w, "CalledProcessError")
  ELSE TRet([self EXCEPT !.message = message],
            [w EXCEPT !.gbranches = @ \cup {patch_name}, !.gbranch = patch_name],
            None)

\* git commit -m message [path ...]: the staged changes, or with paths the
\* changes under them, become a commit on the current branch; exits 1 when
\* there is nothing to commit
GitCommit(w, message, include) ==
  LET taken == IF include.given /\ include.items # {} THEN w.changed \cap include.items
               ELSE w.added
  IN  IF taken = {} THEN [ok |-> FALSE, wc |-> w]
      ELSE [ok |-> TRUE,
            wc |-> [w EXCEPT !.gcommits = Append(@, [branch |-> w.gbranch, message |-> message,
                                                    paths |-> taken]),
                             !.changed = @ \ taken, !.added = @ \ taken]]

GitTree_update_patch_unchecked(self, w, include) ==
  LET co == GitCommit(w, self.message, include)
  IN  TRet(self, co.wc, IF co.ok THEN None ELSE "CalledProcessError")

GitTree_update_patch(self, w, include) ==
  IF self.message = None THEN TRet(self, w, "AssertionError")
  ELSE LET co == GitCommit(w, self.message, include)
       IN  TRet(self, co.wc, IF co.ok THEN None ELSE "CalledProcessError")

\* GitTree.commit_patch: pass
GitTree_commit_patch(self, w) == TRet(self, w, None)

-----------------------------------------------------------------------------
(* The calls the orchestrator makes on whichever variant it holds *)

is_clean(self, w) ==
  CASE self.cls = "NoVCSTree" -> NoVCSTree_is_clean(self, w)
    [] self.cls = "HgTree" -> HgTree_is_clean(self, w)
    [] self.cls = "GitTree" -> GitTree_is_clean(self, w)

add_new(self, w, prefix) ==
  CASE self.cls = "NoVCSTree" -> NoVCSTree_add_new(self, w, prefix)
    [] self.cls = "HgTree" -> HgTree_add_new(self, w, prefix)
    [] self.cls = "GitTree" -> GitTree_add_new(self, w, prefix)

create_patch(self, w, patch_name, message) ==
  CASE self.cls = "NoVCSTree" -> NoVCSTree_create_patch(self, w, patch_name, message)
    [] self.cls = "HgTree" -> HgTree_create_patch(self, w, patch_name, message)
    [] self.cls = "GitTree" -> GitTree_create_patch(self, w, patch_name, message)

update_patch(self, w, include) ==
  CASE self.cls = "NoVCSTree" -> NoVCSTree_update_patch(self, w, include)
    [] self.cls = "HgTree" -> HgTree_update_patch(self, w, include)
    [] self.cls = "GitTree" -> GitTree_update_patch(self, w, include)

commit_patch(self, w) ==
  CASE self.cls = "NoVCSTree" -> NoVCSTree_commit_patch(self, w)
    [] self.cls = "HgTree" -> HgTree_commit_patch(self, w)
    [] self.cls = "GitTree" -> GitTree_commit_patch(self, w)

\* what the last call on the tree was, and what has been called since the
\* tree was made
NoTreeCall ==
  [op |-> "none", exc |-> None, created |-> FALSE, addedNew |-> FALSE, edits |-> 0,
   commitsBefore |-> <<>>]

-----------------------------------------------------------------------------
(* The values of a run of main() *)

\* config["command-args"]; rev None means the configured branch, master
Configs == [patch : BOOLEAN, no_check_clean : BOOLEAN, sync : BOOLEAN, run_log : BOOLEAN,
            rev : {None}]
NoConfig == [patch |-> FALSE, no_check_clean |-> FALSE, sync |-> FALSE, run_log |-> FALSE,
             rev |-> None]

\* a manifest snapshot: its rev attribute
Manifest(r) == [rev |-> r]
Unset == "unset"

\* the part of the working copy that belongs to hg or git, and the local tree object's state
VcsState(self, w) ==
  [message |-> self.message, added |-> w.added, gbranch |-> w.gbranch,
   gbranches |-> w.gbranches, gcommits |-> w.gcommits, hseries |-> w.hseries,
   hunapplied |-> w.hunapplied]

\* the locals of run_update, sync_tests and update_metadata, what was written
\* to stderr, and the exception on its way out
NoFrame ==
  [initial_manifest |-> Manifest(Unset), new_manifest |-> Manifest(Unset),
   initial_rev |-> Unset, needs_human |-> {}, printed |-> {}, not_clean |-> FALSE,
   traceback |-> FALSE, exc |-> None, success |-> Unset, flow |-> "none",
   clean_after |-> Unset, changed_after |-> {}, vcs0 |-> VcsState(NoVCSTree, NoWorkingCopy),
   dest0 |-> {}, clone0 |-> NoRepo]

\* one call: the function, and the argument the properties look at
Call(fn, arg) == [fn |-> fn, arg |-> arg]

NoRun ==
  /\ config = NoConfig
  /\ pc = "idle"
  /\ calls = <<>>
  /\ manifest = None
  /\ frame = NoFrame
  /\ exit_code = None

-----------------------------------------------------------------------------
(* A local tree on its own: a variant on a just-created working copy, its  *)
(* files modified and its operations called in any order.                  *)

\* how many times files of the working copy are modified
MaxEdits == 2

\* the include arguments tried: the default, and the lists the orchestrator passes
Includes == {IncludeNone, Include({"test", "metadata"}), Include({"metadata"})}

TreeInit ==
  /\ remote = [b \in RemoteBranches |-> IF b = RemoteHEAD THEN 1 ELSE NoCommit]
  /\ clone = NoRepo
  /\ wpt = NoObject
  /\ made = 0
  /\ mlast = NoCall
  /\ tree = EmptyTree
  /\ dest = {}
  /\ clast = NoCopy
  /\ \E hg \in BOOLEAN, git \in BOOLEAN :
       /\ wc = FreshWorkingCopy(hg, git)
       /\ local_tree \in {NoVCSTree} \cup (IF hg THEN {HgTree} ELSE {}) \cup (IF git THEN {GitTree} ELSE {})
  /\ tlast = NoTreeCall
  /\ NoRun

\* a file of the working copy is modified, or created
Modify ==
  /\ tlast.edits < MaxEdits
  /\ \E a \in Areas : wc' = [wc EXCEPT !.changed = @ \cup {a}]
  /\ tlast' = [tlast EXCEPT !.op = "modify", !.exc = None, !.edits = @ + 1, !.commitsBefore = wc.gcommits]
  /\ UNCHANGED <<mirrorVars, copyVars, local_tree, runVars>>

\* local_tree.add_new(prefix)
TreeAddNew ==
  /\ \E prefix \in Areas \cup {None} :
       LET res == add_new(local_tree, wc, prefix)
       IN  /\ local_tree' = res.self
           /\ wc' = res.wc
           /\ tlast' = [tlast EXCEPT !.op = "add_new", !.exc = res.exc, !.commitsBefore = wc.gcommits,
                                     !.addedNew = @ \/ res.exc = None]
  /\ UNCHANGED <<mirrorVars, copyVars, runVars>>

\* local_tree.create_patch(patch_name, message)
TreeCreatePatch ==
  /\ \E r \in {Hash(1)}, meta \in BOOLEAN :
       LET res == IF meta THEN create_patch(local_tree, wc, MetaPatchName(r), MetaPatchMessage(r))
                  ELSE create_patch(local_tree, wc, SyncPatchName(r), SyncPatchMessage(r))
       IN  /\ local_tree' = res.self
           /\ wc' = res.wc
           /\ tlast' = [tlast EXCEPT !.op = "create_patch", !.exc = res.exc, !.commitsBefore = wc.gcommits,
                                     !.created = TRUE]
  /\ UNCHANGED <<mirrorVars, copyVars, runVars>>

\* local_tree.update_patch(include)
TreeUpdatePatch ==
  /\ \E include \in Includes :
       LET res == update_patch(local_tree, wc, include)
       IN  /\ local_tree' = res.self
           /\ wc' = res.wc
           /\ tlast' = [tlast EXCEPT !.op = "update_patch", !.exc = res.exc, !.commitsBefore = wc.gcommits]
  /\ UNCHANGED <<mirrorVars, copyVars, runVars>>

\* local_tree.commit_patch()
TreeCommitPatch ==
  /\ LET res == commit_patch(local_tree, wc)
     IN  /\ local_tree' = res.self
         /\ wc' = res.wc
         /\ tlast' = [tlast EXCEPT !.op = "commit_patch", !.exc = res.exc, !.commitsBefore = wc.gcommits]
  /\ UNCHANGED <<mirrorVars, copyVars, runVars>>

TreeNext == Modify \/ TreeAddNew \/ TreeCreatePatch \/ TreeUpdatePatch \/ TreeCommitPatch

SpecTree == TreeInit /\ [][TreeNext]_vars

-----------------------------------------------------------------------------
(* copy_work_tree on its own: any tracked tree, any earlier contents       *)

CopyInit ==
  /\ remote = [b \in RemoteBranches |-> IF b = RemoteHEAD THEN 1 ELSE NoCommit]
  /\ clone = GitCheckoutNew(GitClone(remote, TRUE).clone, Uuid(1), "master").clone
  /\ wpt = WebPlatformTests("master", 1)
  /\ made = 1
  /\ mlast = NoCall
  /\ tree \in Trees
  /\ dest \in SUBSET StaleFiles
  /\ clast = NoCopy
  /\ local_tree = NoObject
  /\ wc = NoWorkingCopy
  /\ tlast = NoTreeCall
  /\ NoRun

\* wpt.copy_work_tree(dest)
CopyWorkTree ==
  /\ LET res == copy_work_tree(tree, dest)
     IN  /\ dest' = res.dest
         /\ clast' = [op |-> "copy", exc |-> res.exc, before |-> dest]
  /\ UNCHANGED <<mirrorVars, tree, treeVars, runVars>>

\* something other than copy_work_tree writes a file into the destination
DestWrite ==
  /\ \E f \in StaleFiles : f \notin dest /\ dest' = dest \cup {f}
  /\ clast' = NoCopy
  /\ UNCHANGED <<mirrorVars, tree, treeVars, runVars>>

CopyNext == CopyWorkTree \/ DestWrite

SpecCopy == CopyInit /\ [][CopyNext]_vars

-----------------------------------------------------------------------------
(* The mirror on its own: objects are constructed and updated, run after   *)
(* run, while the upstream moves and the operator edits the clone.         *)

MirrorInit ==
  /\ remote \in [RemoteBranches -> Commits \cup {NoCommit}]
  /\ remote[RemoteHEAD] = 1
  /\ remote["dev"] \in {NoCommit, 1}
  /\ clone = NoRepo
  /\ wpt = NoObject
  /\ made = 0
  /\ mlast = NoCall
  /\ tree = EmptyTree
  /\ dest = {}
  /\ clast = NoCopy
  /\ local_tree = NoObject
  /\ wc = NoWorkingCopy
  /\ tlast = NoTreeCall
  /\ NoRun

\* run_update lines 387-389: a new object per invocation
Construct ==
  /\ made < MaxRuns
  /\ \E t \in TargetRevs : wpt' = WebPlatformTests(t, made + 1)
  /\ made' = made + 1
  /\ mlast' = NoCall
  /\ UNCHANGED <<remote, clone, copyVars, treeVars, runVars>>

\* wpt.update(), once per object (sync_tests line 300)
MirrorUpdate ==
  /\ wpt # NoObject
  /\ mlast.op = "none"
  /\ \E net \in Nets :
       LET res == update(wpt, clone, remote, net)
       IN  /\ clone' = res.clone
           /\ mlast' = [op |-> "update", exc |-> res.exc, cmds |-> res.cmds,
                        target |-> TargetOnRemote(remote, wpt.target_rev),
                        before |-> clone]
  /\ UNCHANGED <<remote, wpt, made, copyVars, treeVars, runVars>>

\* wpt.clean(), after an update() that returned
MirrorClean ==
  /\ wpt # NoObject
  /\ mlast.op = "update" /\ mlast.exc = None
  /\ LET res == clean(wpt, clone)
     IN  /\ clone' = res.clone
         /\ mlast' = [mlast EXCEPT !.op = "clean", !.exc = res.exc, !.cmds = res.cmds]
  /\ UNCHANGED <<remote, wpt, made, copyVars, treeVars, runVars>>

\* the newest commit the upstream holds
Newest(r) == CHOOSE m \in {r[b] : b \in RemoteBranches} : \A b \in RemoteBranches : r[b] <= m

\* the upstream gains a commit on one of its branches
RemotePush ==
  /\ Newest(remote) < MaxCommit
  /\ \E b \in RemoteBranches : remote' = [remote EXCEPT ![b] = Newest(remote) + 1]
  /\ UNCHANGED <<clone, wpt, made, mlast, copyVars, treeVars, runVars>>

\* the operator leaves, or removes, uncommitted changes in the clone
UserEdit ==
  /\ clone.isRepo
  /\ clone' = [clone EXCEPT !.dirty = ~clone.dirty]
  /\ UNCHANGED <<remote, wpt, made, mlast, copyVars, treeVars, runVars>>

MirrorNext == Construct \/ MirrorUpdate \/ RemotePush \/ UserEdit \/ MirrorClean

SpecMirror == MirrorInit /\ [][MirrorNext]_vars

-----------------------------------------------------------------------------
(* The collaborators of the metadata module, as section 6 gives them *)

\* metadata.load_test_manifest: the snapshot of the manifest file as it is
load_test_manifest(m) == Manifest(m)

\* metadata.update_manifest: a manifest of the mirror's checkout, written to
\* the manifest file
update_manifest(c) == Manifest(rev(c))

\* the sets update_expected may return
Items == {"a.ini", "b.ini"}
NeedsHumanSets == {{}, {"a.ini"}, Items}

-----------------------------------------------------------------------------
(* run_update: the choice of the local tree *)

\* line 370, with Git probed first
TreeClassesGitFirst == <<"GitTree", "HgTree", "NoVCSTree">>
\* line 370: the classes in the order they are probed
TreeClasses == <<"HgTree", "GitTree", "NoVCSTree">>

\* tree_cls.is_type(os.path.abspath(os.curdir))
is_type(cls, w) ==
  CASE cls = "HgTree" -> HgTree_is_type(w)
    [] cls = "GitTree" -> GitTree_is_type(w)
    [] cls = "NoVCSTree" -> NoVCSTree_is_type(w)

\* tree_cls()
TreeObject(cls) ==
  CASE cls = "HgTree" -> HgTree
    [] cls = "GitTree" -> GitTree
    [] cls = "NoVCSTree" -> NoVCSTree

\* lines 370-374: the loop breaks at the first class whose is_type succeeds
Probe(classes, w) ==
  classes[CHOOSE i \in DOMAIN classes :
            /\ is_type(classes[i], w)
            /\ \A j \in 1..(i - 1) : ~is_type(classes[j], w)]

\* lines 369-376, with the patch flag ignored
SelectTreeAlwaysProbe(patch, w) == TreeObject(Probe(TreeClasses, w))
\* lines 369-376
SelectTree(patch, w) ==
  IF patch THEN TreeObject(Probe(TreeClasses, w)) ELSE NoVCSTree

\* lines 378-381, with the exit left out
NeverAbort(dirty, no_check_clean) == FALSE
\* lines 378-381: whether sys.exit(1) is reached
AbortOnDirty(dirty, no_check_clean) == dirty /\ ~no_check_clean

\* lines 394-395, with the two snapshots swapped
InitialRevFromNew(initial_manifest, new_manifest) == new_manifest.rev
\* lines 394-395: initial_rev = initial_manifest.rev
InitialRev(initial_manifest, new_manifest) == initial_manifest.rev

\* what run_update returns: it has no return statement
run_update_result == None

\* main line 405: sys.exit(0 if success else 1); None is false
main_exit_code(success) == IF success \notin {None, "False"} THEN 0 ELSE 1

\* update_metadata lines 334-336, with the except clause left out
SwallowedNever(exc) == FALSE
\* update_metadata lines 334-336: the exceptions of create_patch that are passed over
Swallowed(exc) == exc = "CalledProcessError"

\* sync_tests lines 300-304, with a failure of update() not ending the flow
AfterUpdateAlways(exc) == "sync_load"
\* sync_tests lines 300-304: an exception of update() leaves sync_tests,
\* otherwise the manifest is loaded next
AfterUpdate(exc) == IF exc = None THEN "sync_load" ELSE "raised"

\* where run_update goes after the sync flow, or without it (line 397)
AfterSync == IF config.run_log THEN "meta_create_patch" ELSE "returned"

\* an exception leaves the flow with nothing written to stderr
RaisedUnlogged(f, exc, inTry) == [f EXCEPT !.exc = exc, !.traceback = FALSE]
\* an exception leaves the flow: written to stderr by the flow's except
\* clause when it was raised inside the try
Raised(f, exc, inTry) == [f EXCEPT !.exc = exc, !.traceback = inTry]

-----------------------------------------------------------------------------
(* One run of main(), statement by statement *)

\* the clone an earlier run left: cloned when the upstream's master was
\* commit 1, its isolation branch still checked out
EarlierClone(dirty) ==
  [GitCheckoutNew(GitClone([b \in RemoteBranches |-> IF b = RemoteHEAD THEN 1 ELSE NoCommit],
                           TRUE).clone, Uuid(0), "master").clone
     EXCEPT !.dirty = dirty]

\* the trees of the mirror's checkout tried: with the resources submodule and without
RunTrees ==
  {[files |-> {<<"a.html">>}, subs |-> Put([x \in {} |-> {}], <<"resources">>, {<<"testharness.js">>})],
   [files |-> {<<"a.html">>}, subs |-> [x \in {} |-> {}]]}

\* the working copy run_update starts in: patches of the names this run
\* will use may be left from an earlier run to the same revision (branches
\* in git; in hg the metadata patch applied or not, the sync patch unapplied)
RunWorkingCopies ==
  {[FreshWorkingCopy(hg, git) EXCEPT
      !.changed = ch,
      !.gbranches = @ \cup (IF git /\ prior # "none" THEN {MetaPatchName(Hash(1))} ELSE {})
                      \cup (IF git /\ priorSync THEN {SyncPatchName(Hash(1))} ELSE {}),
      !.hseries = IF hg /\ prior = "applied"
                  THEN <<[name |-> MetaPatchName(Hash(1)), message |-> MetaPatchMessage(Hash(1)),
                          paths |-> {}]>>
                  ELSE @,
      !.hunapplied = (IF hg /\ prior = "unapplied" THEN {MetaPatchName(Hash(1))} ELSE {})
                       \cup (IF hg /\ priorSync THEN {SyncPatchName(Hash(1))} ELSE {})] :
     hg \in BOOLEAN, git \in BOOLEAN, ch \in {{}, {"other"}},
     prior \in {"none", "applied", "unapplied"}, priorSync \in BOOLEAN}

Init ==
  /\ remote \in {[b \in RemoteBranches |-> IF b = RemoteHEAD THEN m ELSE NoCommit] : m \in {1, 2}}
  /\ clone \in {NoRepo, EarlierClone(FALSE), EarlierClone(TRUE)}
  /\ wpt = NoObject
  /\ made = 0
  /\ mlast = NoCall
  /\ tree \in RunTrees
  /\ dest \in {{}, {<<"old.html">>}}
  /\ clast = NoCopy
  /\ local_tree = NoObject
  /\ wc \in RunWorkingCopies
  /\ tlast = NoTreeCall
  /\ config \in Configs
  /\ pc = "start"
  /\ calls = <<>>
  /\ manifest \in {None, Hash(1)}
  /\ frame = [NoFrame EXCEPT !.vcs0 = VcsState(NoVCSTree, wc), !.dest0 = dest, !.clone0 = clone]
  /\ exit_code = None

\* run_update lines 359-376: the config is read, the paths made, the tree chosen
RunSelectTree ==
  /\ pc = "start"
  /\ local_tree' = SelectTree(config.patch, wc)
  /\ pc' = "check"
  /\ UNCHANGED <<mirrorVars, copyVars, wc, tlast, config, calls, manifest, frame, exit_code>>

\* run_update lines 378-381
RunCheckClean ==
  /\ pc = "check"
  /\ LET dirty == ~is_clean(local_tree, wc)
     IN  /\ frame' = [frame EXCEPT !.not_clean = dirty]
         /\ IF AbortOnDirty(dirty, config.no_check_clean)
            THEN pc' = "exited" /\ exit_code' = 1
            ELSE pc' = "construct" /\ exit_code' = exit_code
  /\ UNCHANGED <<mirrorVars, copyVars, treeVars, config, calls, manifest>>

\* run_update lines 383-393
RunConstruct ==
  /\ pc = "construct"
  /\ wpt' = WebPlatformTests(IF config.rev = None THEN "master" ELSE config.rev, made + 1)
  /\ made' = made + 1
  /\ frame' = [frame EXCEPT !.initial_rev = None]
  /\ pc' = IF config.sync THEN "sync_update" ELSE AfterSync
  /\ UNCHANGED <<remote, clone, mlast, copyVars, treeVars, config, calls, manifest, exit_code>>

\* sync_tests line 300: wpt.update(), outside the try
SyncUpdate ==
  /\ pc = "sync_update"
  /\ \E net \in Nets :
       LET res == update(wpt, clone, remote, net)
       IN  /\ clone' = res.clone
           /\ mlast' = [op |-> "update", exc |-> res.exc, cmds |-> res.cmds,
                        target |-> TargetOnRemote(remote, wpt.target_rev), before |-> clone]
           /\ pc' = AfterUpdate(res.exc)
           /\ frame' = IF res.exc = None THEN [frame EXCEPT !.flow = "sync"]
                        ELSE Raised([frame EXCEPT !.flow = "sync"], res.exc, FALSE)
  /\ calls' = Append(calls, Call("update", wpt.target_rev))
  /\ UNCHANGED <<remote, wpt, made, copyVars, treeVars, config, manifest, exit_code>>

\* sync_tests line 304
SyncLoadManifest ==
  /\ pc = "sync_load"
  /\ frame' = [frame EXCEPT !.initial_manifest = load_test_manifest(manifest)]
  /\ calls' = Append(calls, Call("load_test_manifest", manifest))
  /\ pc' = "sync_copy"
  /\ UNCHANGED <<mirrorVars, copyVars, treeVars, config, manifest, exit_code>>

\* sync_tests line 305: paths["test"] is a directory of the working copy
SyncCopy ==
  /\ pc = "sync_copy"
  /\ \E differ \in BOOLEAN :
       LET res == copy_work_tree(tree, dest)
       IN  /\ dest' = res.dest
           /\ clast' = [op |-> "copy", exc |-> res.exc, before |-> dest]
           /\ wc' = [wc EXCEPT !.changed = IF differ \/ res.dest # dest THEN @ \cup {"test"} ELSE @]
           /\ IF res.exc = None
              THEN pc' = "sync_manifest" /\ frame' = frame
              ELSE pc' = "raised" /\ frame' = Raised(frame, res.exc, TRUE)
  /\ calls' = Append(calls, Call("copy_work_tree", "test"))
  /\ UNCHANGED <<mirrorVars, tree, local_tree, tlast, config, manifest, exit_code>>

\* sync_tests line 306: the manifest file is under paths["metadata"]
SyncUpdateManifest ==
  /\ pc = "sync_manifest"
  /\ frame' = [frame EXCEPT !.new_manifest = update_manifest(clone)]
  /\ manifest' = update_manifest(clone).rev
  /\ wc' = [wc EXCEPT !.changed = IF manifest' # manifest THEN @ \cup {"metadata"} ELSE @]
  /\ calls' = Append(calls, Call("update_manifest", rev(clone)))
  /\ pc' = "sync_create_patch"
  /\ UNCHANGED <<mirrorVars, copyVars, local_tree, tlast, config, exit_code>>

\* sync_tests lines 308-311
SyncCreatePatch ==
  /\ pc = "sync_create_patch"
  /\ LET res == create_patch(local_tree, wc, SyncPatchName(rev(clone)), SyncPatchMessage(rev(clone)))
     IN  /\ local_tree' = res.self
         /\ wc' = res.wc
         /\ IF res.exc = None
            THEN pc' = "sync_add_new" /\ frame' = frame
            ELSE pc' = "raised" /\ frame' = Raised(frame, res.exc, TRUE)
  /\ calls' = Append(calls, Call("create_patch", SyncPatchName(rev(clone))))
  /\ UNCHANGED <<mirrorVars, copyVars, tlast, config, manifest, exit_code>>

\* sync_tests line 312
SyncAddNew ==
  /\ pc = "sync_add_new"
  /\ LET res == add_new(local_tree, wc, "test")
     IN  /\ local_tree' = res.self
         /\ wc' = res.wc
         /\ IF res.exc = None
            THEN pc' = "sync_update_patch" /\ frame' = frame
            ELSE pc' = "raised" /\ frame' = Raised(frame, res.exc, TRUE)
  /\ calls' = Append(calls, Call("add_new", "test"))
  /\ UNCHANGED <<mirrorVars, copyVars, tlast, config, manifest, exit_code>>

\* sync_tests lines 313-321 and run_update lines 394-395
SyncUpdatePatch ==
  /\ pc = "sync_update_patch"
  /\ LET res == update_patch(local_tree, wc, Include({"test", "metadata"}))
     IN  /\ local_tree' = res.self
         /\ wc' = res.wc
         /\ IF res.exc = None
            THEN /\ pc' = AfterSync
                 /\ frame' = [frame EXCEPT !.initial_rev =
                                InitialRev(frame.initial_manifest, frame.new_manifest)]
            ELSE pc' = "raised" /\ frame' = Raised(frame, res.exc, TRUE)
  /\ calls' = Append(calls, Call("update_patch", "sync"))
  /\ UNCHANGED <<mirrorVars, copyVars, tlast, config, manifest, exit_code>>

\* update_metadata lines 326-336: create_patch, CalledProcessError swallowed
MetaCreatePatch ==
  /\ pc = "meta_create_patch"
  /\ LET res == create_patch(local_tree, wc, MetaPatchName(rev(clone)), MetaPatchMessage(rev(clone)))
     IN  /\ local_tree' = res.self
         /\ wc' = res.wc
         /\ IF res.exc = None \/ Swallowed(res.exc)
            THEN pc' = "meta_update_expected" /\ frame' = [frame EXCEPT !.flow = "metadata"]
            ELSE pc' = "raised" /\ frame' = Raised([frame EXCEPT !.flow = "metadata"], res.exc, TRUE)
  /\ calls' = Append(calls, Call("create_patch", MetaPatchName(rev(clone))))
  /\ UNCHANGED <<mirrorVars, copyVars, tlast, config, manifest, exit_code>>

\* update_metadata lines 337-341: update_expected rewrites expectation files
\* under paths["metadata"]; the files it returns are among those it rewrote
MetaUpdateExpected ==
  /\ pc = "meta_update_expected"
  /\ \E nh \in NeedsHumanSets, rewrote \in BOOLEAN :
       /\ nh # {} => rewrote
       /\ frame' = [frame EXCEPT !.needs_human = nh]
       /\ wc' = [wc EXCEPT !.changed = IF rewrote THEN @ \cup {"metadata"} ELSE @]
  /\ calls' = Append(calls, Call("update_expected", frame.initial_rev))
  /\ pc' = "meta_report"
  /\ UNCHANGED <<mirrorVars, copyVars, local_tree, tlast, config, manifest, exit_code>>

\* update_metadata lines 343-348: the items are printed, the tree is asked
MetaReport ==
  /\ pc = "meta_report"
  /\ frame' = [frame EXCEPT !.printed = frame.needs_human,
                            !.clean_after = IF is_clean(local_tree, wc) THEN "clean" ELSE "dirty",
                            !.changed_after = wc.changed]
  /\ pc' = IF ~is_clean(local_tree, wc) THEN "meta_add_new" ELSE "returned"
  /\ UNCHANGED <<mirrorVars, copyVars, treeVars, config, calls, manifest, exit_code>>

\* update_metadata line 349
MetaAddNew ==
  /\ pc = "meta_add_new"
  /\ LET res == add_new(local_tree, wc, "metadata")
     IN  /\ local_tree' = res.self
         /\ wc' = res.wc
         /\ IF res.exc = None
            THEN pc' = "meta_update_patch" /\ frame' = frame
            ELSE pc' = "raised" /\ frame' = Raised(frame, res.exc, TRUE)
  /\ calls' = Append(calls, Call("add_new", "metadata"))
  /\ UNCHANGED <<mirrorVars, copyVars, tlast, config, manifest, exit_code>>

\* update_metadata line 350
MetaUpdatePatch ==
  /\ pc = "meta_update_patch"
  /\ LET res == update_patch(local_tree, wc, Include({"metadata"}))
     IN  /\ local_tree' = res.self
         /\ wc' = res.wc
         /\ IF res.exc = None
            THEN pc' = "returned" /\ frame' = frame
            ELSE pc' = "raised" /\ frame' = Raised(frame, res.exc, TRUE)
  /\ calls' = Append(calls, Call("update_patch", "metadata"))
  /\ UNCHANGED <<mirrorVars, copyVars, tlast, config, manifest, exit_code>>

\* main lines 404-405: run_update returned
MainExit ==
  /\ pc = "returned"
  /\ frame' = [frame EXCEPT !.success = run_update_result]
  /\ exit_code' = main_exit_code(run_update_result)
  /\ pc' = "exited"
  /\ UNCHANGED <<mirrorVars, copyVars, treeVars, config, calls, manifest>>

\* an exception leaves run_update and main: the interpreter exits with 1
MainRaise ==
  /\ pc = "raised"
  /\ exit_code' = 1
  /\ pc' = "exited"
  /\ UNCHANGED <<mirrorVars, copyVars, treeVars, config, calls, manifest, frame>>

Next ==
  \/ RunSelectTree \/ RunCheckClean \/ RunConstruct
  \/ SyncUpdate \/ SyncLoadManifest \/ SyncCopy \/ SyncUpdateManifest
  \/ SyncCreatePatch \/ SyncAddNew \/ SyncUpdatePatch
  \/ MetaCreatePatch \/ MetaUpdateExpected \/ MetaReport \/ MetaAddNew \/ MetaUpdatePatch
  \/ MainExit \/ MainRaise

Spec == Init /\ [][Next]_vars

-----------------------------------------------------------------------------
(* Properties of the mirror (SpecMirror) *)

\* C1: after every update() that returns, by the fresh clone or by the fetch
\* into an existing clone, rev is the hash of the commit target_rev named on
\* the upstream when update() was called, however many isolation branches
\* earlier runs left in the clone.
C1_RevIsTargetAfterUpdate ==
  (mlast.op = "update" /\ mlast.exc = None) =>
    /\ is_git_root(clone)
    /\ mlast.target # NoCommit
    /\ rev(clone) = Hash(mlast.target)

\* an update by fetch into a clone that holds an earlier run's isolation
\* branch, after the upstream moved on
C1_Witness ==
  /\ mlast.op = "update" /\ mlast.exc = None
  /\ mlast.cmds[1] = "status"
  /\ wpt.local_branch = Uuid(2)
  /\ Uuid(1) \in DOMAIN clone.heads
  /\ clone.heads[RemoteHEAD] = 1
  /\ mlast.target = 2

-----------------------------------------------------------------------------
(* Properties of copy_work_tree (SpecCopy) *)

\* C2, as stated: after a successful copy_work_tree the files of dest are
\* exactly the paths _tree_paths() returns and the two overlay files.
C2_DestIsTreePathsAndOverlays ==
  (clast.op = "copy" /\ clast.exc = None) =>
    dest = {Norm(p) : p \in tree_paths(tree)} \cup Overlays

\* C2, amended: after a successful copy_work_tree the files of dest are
\* exactly the paths _tree_paths() returns that are no directories of the
\* clone (a submodule's own entry is listed but not copied) and the two
\* overlay files; no earlier file of dest outside that set remains.
C2_DestIsTrackedFilesAndOverlays ==
  (clast.op = "copy" /\ clast.exc = None) =>
    LET expected == {Norm(p) : p \in {q \in tree_paths(tree) : ~isdir(tree, q)}} \cup Overlays
    IN  /\ dest = expected
        /\ \A f \in clast.before : f \in dest => f \in expected

\* a successful copy over a destination that held stale files, of a tree
\* with files of its own and a submodule
C2_Witness ==
  /\ clast.op = "copy" /\ clast.exc = None
  /\ <<"old.html">> \in clast.before
  /\ <<"resources", "stale.js">> \in clast.before
  /\ <<"resources">> \in DOMAIN tree.subs
  /\ <<"dom", "b.html">> \in dest

-----------------------------------------------------------------------------
(* Properties of the local tree variants (SpecTree) *)

\* C3: for every variant is_clean() is true on a just-created, unmodified
\* working copy and false after add_new and a modification of a file.
C3_IsCleanTrueWhenFreshFalseWhenModified ==
  /\ (tlast.op = "none" /\ wc.changed = {}) => is_clean(local_tree, wc)
  /\ (tlast.addedNew /\ wc.changed # {}) => ~is_clean(local_tree, wc)

\* C6: on a GitTree on which create_patch was never called, update_patch
\* raises AssertionError and makes no commit, whatever include and the
\* working copy are.
C6_UpdatePatchBeforeCreatePatchFails ==
  (local_tree.cls = "GitTree" /\ tlast.op = "update_patch" /\ ~tlast.created) =>
    /\ tlast.exc = "AssertionError"
    /\ wc.gcommits = tlast.commitsBefore

\* update_patch called first on a GitTree whose working copy has staged changes
C6_Witness ==
  /\ local_tree.cls = "GitTree" /\ tlast.op = "update_patch" /\ ~tlast.created
  /\ tlast.exc = "AssertionError"
  /\ "metadata" \in wc.changed /\ "metadata" \in wc.added

-----------------------------------------------------------------------------
(* Properties of a run of main() (Spec) *)

\* the names of the functions called so far, in order
Fns == [i \in DOMAIN calls |-> calls[i].fn]

\* whether a call of the given function and argument was made
Called(fn, arg) == \E i \in DOMAIN calls : calls[i] = Call(fn, arg)

\* C4: the process exits with 0 whenever run_update completes (it returned:
\* no exception, no abort on a dirty tree) and with 1 otherwise.
C4_ExitZeroWhenRunUpdateCompletes ==
  pc = "exited" =>
    /\ frame.success # Unset => exit_code = 0
    /\ frame.success = Unset => exit_code = 1

\* C5: when the chosen tree is not clean and no_check_clean is off, the
\* process exits with 1 and nothing was called on the mirror, the manifest or
\* the tree, and the clone, the test directory and the VCS state are as they
\* were; when no_check_clean is on, the run goes on into the flows asked for.
C5_DirtyTreeAbortsBeforeAnyStep ==
  /\ (frame.not_clean /\ ~config.no_check_clean) =>
       /\ pc = "exited" /\ exit_code = 1
       /\ calls = <<>>
       /\ wpt = NoObject
       /\ clone = frame.clone0 /\ dest = frame.dest0
       /\ VcsState(local_tree, wc) = frame.vcs0
  /\ (frame.not_clean /\ config.no_check_clean /\ pc = "exited") =>
       /\ config.sync => (calls # <<>> /\ calls[1].fn = "update")
       /\ (~config.sync /\ config.run_log) => \E i \in DOMAIN calls : calls[i].fn = "update_expected"

\* a Mercurial working copy with changes, both flows asked for, no override
C5_Witness ==
  /\ pc = "exited" /\ frame.not_clean /\ ~config.no_check_clean
  /\ local_tree.cls = "HgTree"
  /\ config.sync /\ config.run_log

\* C7: the rev_old given to update_expected is the revision of the snapshot
\* the sync flow loaded after update() and before copy_work_tree; it is None
\* when the sync flow did not run.
C7_RevOldIsPreCopyRevision ==
  \A i \in DOMAIN calls :
    calls[i].fn = "update_expected" =>
      IF config.sync
      THEN /\ i > 4
           /\ calls[1].fn = "update"
           /\ calls[2].fn = "load_test_manifest"
           /\ calls[3].fn = "copy_work_tree"
           /\ calls[4].fn = "update_manifest"
           /\ calls[i].arg = calls[2].arg
           /\ calls[i].arg = frame.initial_manifest.rev
      ELSE /\ calls[i].arg = None
           /\ \A j \in DOMAIN calls : calls[j].fn # "load_test_manifest"

\* the snapshot before the copy is of revision c1, the one after it of c2
C7_Witness ==
  /\ \E i \in DOMAIN calls : calls[i] = Call("update_expected", Hash(1))
  /\ frame.initial_manifest.rev = Hash(1)
  /\ frame.new_manifest.rev = Hash(2)

\* C8: in the metadata flow, once update_expected has returned, the metadata
\* directory is staged and the patch updated if and only if the local tree has
\* changes, whatever the set returned; a non-empty set is printed item by
\* item and the flow ends without an exception.
C8_StagedIffDirtyAndReviewSetReported ==
  (pc = "exited" /\ \E i \in DOMAIN calls : calls[i].fn = "update_expected") =>
    /\ (Called("add_new", "metadata") /\ Called("update_patch", "metadata"))
         <=> (local_tree.cls # "NoVCSTree" /\ frame.changed_after # {})
    /\ frame.needs_human # {} => (frame.printed = frame.needs_human /\ frame.exc = None)

\* C9: with the patch flag off the tree is a NoVCSTree whatever repository
\* the directory is in; the run is never ended by the clean check, the sync
\* flow is performed when asked for, and the calls on the tree leave the hg
\* and git state as it was.
C9_PatchOffIsNoVCSAndChangesNothing ==
  (~config.patch /\ pc \notin {"idle", "start"}) =>
    /\ local_tree = NoVCSTree
    /\ ~frame.not_clean
    /\ ~(pc = "exited" /\ frame.success = Unset /\ frame.exc = None)
    /\ VcsState(local_tree, wc) = frame.vcs0
    /\ (config.sync /\ pc = "exited" /\ frame.exc = None) =>
         /\ Len(calls) >= 7
         /\ SubSeq(Fns, 1, 7) = <<"update", "load_test_manifest", "copy_work_tree",
                                  "update_manifest", "create_patch", "add_new", "update_patch">>

\* the sync flow run to its end in a git working copy with changes
C9_Witness ==
  /\ ~config.patch /\ config.sync /\ pc = "exited" /\ frame.exc = None
  /\ wc.inGit /\ "other" \in wc.changed
  /\ Called("update_patch", "sync")

\* C10: with the patch flag on the tree is of the first of Mercurial, Git,
\* NoVCS whose is_type succeeds in the current directory; there always is one.
C10_PatchOnTakesFirstOfHgGitNoVCS ==
  (config.patch /\ pc \notin {"idle", "start"}) =>
    LET order == <<"HgTree", "GitTree", "NoVCSTree">>
    IN  \E i \in DOMAIN order :
          /\ local_tree.cls = order[i]
          /\ is_type(order[i], wc)
          /\ \A j \in 1..(i - 1) : ~is_type(order[j], wc)

\* a directory inside both a Mercurial and a git repository
C10_Witness ==
  /\ config.patch /\ pc = "check"
  /\ wc.inHg /\ wc.inGit
  /\ local_tree.cls = "HgTree"

-----------------------------------------------------------------------------
(* More properties of the mirror (SpecMirror) *)

\* C11: every update() called on a path that is a clone with uncommitted
\* changes raises RepositoryError after git status alone (no fetch, no
\* checkout, no submodule command) and leaves the clone, its branches, its
\* HEAD and its uncommitted changes, exactly as it was.
C11_DirtyCloneRaisesAndIsLeftAlone ==
  [][(mlast.op = "none" /\ mlast'.op = "update" /\ is_git_root(clone) /\ clone.dirty) =>
       /\ mlast'.exc = "RepositoryError"
       /\ mlast'.cmds = <<"status">>
       /\ clone' = clone]_vars

\* the second object's update() refused on the clone the first one made,
\* which the operator has edited since
C11_Witness ==
  /\ mlast.op = "update" /\ mlast.exc = "RepositoryError"
  /\ is_git_root(mlast.before) /\ mlast.before.dirty
  /\ wpt.local_branch = Uuid(2)
  /\ Uuid(1) \in DOMAIN clone.heads /\ clone.HEAD = Uuid(1)
  /\ clone = mlast.before

\* C13: clean() called after a successful update() on an existing clone
\* leaves the clone at the revision that was its HEAD before update() made
\* the isolation branch, and the isolation branch is deleted.
C13_CleanRestoresPreUpdateHead ==
  (mlast.op = "clean" /\ is_git_root(mlast.before)) =>
    /\ mlast.exc = None
    /\ GitRevParseHEAD(clone) = GitRevParseHEAD(mlast.before)
    /\ wpt.local_branch \notin DOMAIN clone.heads

-----------------------------------------------------------------------------
(* More properties of the local tree variants (SpecTree) *)

\* C16: on an HgTree, commit_patch called after a create_patch returns
\* without an exception.
C16_HgCommitPatchReturns ==
  (local_tree.cls = "HgTree" /\ tlast.op = "commit_patch" /\ tlast.created) =>
    tlast.exc = None

-----------------------------------------------------------------------------
(* More properties of a run of main() (Spec) *)

\* what holds of a pending exception whichever step raised it: the run is on
\* its way out with exit code 1, a failed sync flow is not followed by the
\* metadata flow, and the isolation branch update() made is the clone's HEAD
PendingExceptionEndsRun ==
  /\ frame.exc # None =>
       /\ pc \in {"raised", "exited"}
       /\ pc = "exited" => exit_code = 1
       /\ frame.flow = "sync" => \A i \in DOMAIN calls : calls[i].fn # "update_expected"
  /\ \A i \in DOMAIN calls : calls[i].fn # "clean"
  /\ (mlast.op = "update" /\ wpt.local_branch \in DOMAIN clone.heads) =>
       clone.HEAD = wpt.local_branch

\* once an exception is pending no step is executed: nothing more is called
\* and the clone, the test directory, the tree and the manifest stay as they are
NoStepAfterException ==
  frame.exc # None =>
    /\ calls' = calls /\ clone' = clone /\ dest' = dest /\ wc' = wc
    /\ local_tree' = local_tree /\ manifest' = manifest

\* C12, as stated: in both flows every exception a step raises is written
\* to stderr with its traceback and re-raised, no later step or flow is
\* executed, clean() is never called, and the isolation branch stays checked out.
C12_EveryExceptionIsLoggedAndReraised ==
  /\ [](PendingExceptionEndsRun /\ (frame.exc # None => frame.traceback))
  /\ [][NoStepAfterException]_vars

\* C12, amended: an exception raised inside a flow's try block (every step
\* but update(), which sync_tests calls before its try) is written to stderr
\* with its traceback and re-raised; an exception of update() reaches the
\* caller without the flow writing it; either way no later step or flow is
\* executed, clean() is never called, and the isolation branch stays checked out.
C12_ExceptionInTryIsLoggedAndReraised ==
  /\ [](PendingExceptionEndsRun
        /\ (frame.exc # None => (frame.traceback <=> calls[Len(calls)].fn # "update")))
  /\ [][NoStepAfterException]_vars

\* the sync flow ended by create_patch, whose branch an earlier run left in
\* the git working copy, after update() fetched into a new isolation branch
C12_Witness ==
  /\ pc = "exited" /\ frame.exc = "CalledProcessError" /\ frame.traceback
  /\ frame.flow = "sync" /\ config.run_log /\ local_tree.cls = "GitTree"
  /\ calls[Len(calls)] = Call("create_patch", SyncPatchName(Hash(1)))
  /\ mlast.cmds = <<"status", "fetch", "checkout", "submodule init", "submodule update">>
  /\ clone.HEAD = wpt.local_branch

\* the positions in calls of the create_patch calls of the sync flow
SyncCreates ==
  {i \in DOMAIN calls : calls[i].fn = "create_patch" /\ i <= 5}

\* the revision update() resolved, as the mirror's rev gives it
ResolvedRev == Hash(mlast.target)

\* a patch name and a message with the resolved revision in them
NameWithRev == "web-platform-tests_update_" \o ResolvedRev
MessageWithRev == "Bug 0 - Update web-platform-tests to revision " \o ResolvedRev

\* C14, as stated: in the sync flow add_new is called before create_patch,
\* exactly one patch is opened, and its name and message embed the mirror's
\* resolved revision.
C14_StagedBeforeOnePatchIsOpened ==
  config.sync =>
    /\ \A i \in SyncCreates :
         /\ \E j \in 1..(i - 1) : calls[j] = Call("add_new", "test")
         /\ calls[i].arg = SyncPatchName(ResolvedRev)
    /\ Cardinality(SyncCreates) <= 1
    /\ Called("update_patch", "sync") => Cardinality(SyncCreates) = 1

\* C14, amended: in the sync flow the patch is opened (create_patch) before
\* the test path is staged (add_new), exactly one patch is opened, and its
\* name and its message embed the mirror's resolved revision; the patch
\* update_patch then writes is that one.
C14_OnePatchIsOpenedBeforeStaging ==
  config.sync =>
    /\ \A j \in DOMAIN calls :
         calls[j] = Call("add_new", "test") =>
           /\ j = 6
           /\ calls[5] = Call("create_patch", NameWithRev)
    /\ \A i \in SyncCreates : calls[i].arg = NameWithRev /\ i = 5
    /\ Called("update_patch", "sync") => Cardinality(SyncCreates) = 1
    /\ (Len(calls) = 7 /\ frame.exc = None /\ local_tree.cls = "GitTree") =>
         /\ local_tree.message = MessageWithRev
         /\ wc.gbranch = NameWithRev
         /\ Len(wc.gcommits) = 1
         /\ wc.gcommits[1].branch = NameWithRev
         /\ wc.gcommits[1].message = MessageWithRev
    /\ (Len(calls) = 7 /\ frame.exc = None /\ local_tree.cls = "HgTree") =>
         /\ wc.hseries[Len(wc.hseries)].name = NameWithRev
         /\ wc.hseries[Len(wc.hseries)].message = MessageWithRev
         /\ "test" \in wc.hseries[Len(wc.hseries)].paths

\* the sync flow run to its end in a git working copy, to the upstream's
\* commit 2 fetched into an earlier run's clone
C14_Witness ==
  /\ config.sync /\ pc = "returned" /\ ~config.run_log
  /\ local_tree.cls = "GitTree"
  /\ Called("update_patch", "sync")
  /\ ResolvedRev = Hash(2) /\ mlast.cmds[1] = "status"
  /\ wc.gbranch = SyncPatchName(Hash(2))

\* what the create_patch call of each flow would raise in the current state
MetaCreateExc ==
  create_patch(local_tree, wc, MetaPatchName(rev(clone)), MetaPatchMessage(rev(clone))).exc
SyncCreateExc ==
  create_patch(local_tree, wc, SyncPatchName(rev(clone)), SyncPatchMessage(rev(clone))).exc

\* C15: when the VCS command of create_patch fails in the metadata flow the
\* flow goes on to update_expected with no exception pending (and can run
\* to its end); when it fails in the sync flow the exception is logged and
\* re-raised, and the run ends with exit code 1 without add_new,
\* update_patch or the metadata flow having been called.
C15_CreatePatchFailureToleratedInMetadataOnly ==
  /\ [][(pc = "meta_create_patch" /\ MetaCreateExc = "CalledProcessError") =>
          /\ pc' = "meta_update_expected"
          /\ frame'.exc = None /\ ~frame'.traceback
          /\ calls' = Append(calls, Call("create_patch", MetaPatchName(rev(clone))))]_vars
  /\ [][pc = "meta_update_expected" =>
          /\ calls' = Append(calls, Call("update_expected", frame.initial_rev))
          /\ frame'.exc = None]_vars
  /\ [][(pc = "sync_create_patch" /\ SyncCreateExc = "CalledProcessError") =>
          /\ pc' = "raised"
          /\ frame'.exc = "CalledProcessError" /\ frame'.traceback]_vars
  /\ []((frame.exc # None /\ frame.flow = "sync" /\ calls[Len(calls)].fn = "create_patch") =>
          /\ pc \in {"raised", "exited"}
          /\ pc = "exited" => exit_code = 1
          /\ \A i \in DOMAIN calls : calls[i].fn \notin {"add_new", "update_patch", "update_expected"})

\* the metadata flow run to its end in a Mercurial working copy where an
\* earlier run left the patch of this name applied: qnew failed, the new
\* expectations went into the patch
C15_Witness ==
  /\ pc = "exited" /\ frame.exc = None /\ frame.flow = "metadata"
  /\ local_tree.cls = "HgTree"
  /\ Called("create_patch", MetaPatchName(Hash(1)))
  /\ Len(frame.vcs0.hseries) = 1 /\ frame.vcs0.hseries[1].name = MetaPatchName(Hash(1))
  /\ Called("update_expected", None)
  /\ Called("update_patch", "metadata")
  /\ Len(wc.hseries) = 1 /\ "metadata" \in wc.hseries[1].paths

\* C17: in every run with a GitTree, whichever of the two flows run and
\* also when the git command of the metadata flow's create_patch failed and
\* was passed over, update_patch is called only after a create_patch call
\* has set the message: no AssertionError is ever raised.
C17_GitMessageSetBeforeEveryUpdatePatch ==
  (local_tree # NoObject /\ local_tree.cls = "GitTree") =>
    /\ frame.exc # "AssertionError"
    /\ pc \in {"sync_update_patch", "meta_update_patch"} => local_tree.message # None
    /\ \A i \in DOMAIN calls :
         calls[i].fn = "update_patch" =>
           /\ \E j \in 1..(i - 1) : calls[j].fn = "create_patch"
           /\ local_tree.message # None

\* the metadata flow alone, in a git working copy where an earlier run left
\* the branch of this name: git checkout -b failed, update_patch committed
C17_Witness ==
  /\ pc = "exited" /\ frame.exc = None /\ ~config.sync /\ local_tree.cls = "GitTree"
  /\ MetaPatchName(Hash(1)) \in frame.vcs0.gbranches
  /\ Called("create_patch", MetaPatchName(Hash(1)))
  /\ Called("update_patch", "metadata")
  /\ local_tree.message = MetaPatchMessage(Hash(1))
  /\ Len(wc.gcommits) = 1

\* the calls of the sync flow on the local tree
PatchOps == {"create_patch", "add_new", "update_patch"}

\* C18: the test directory is wiped or written only by copy_work_tree, which
\* is called only after update() returned in this run and the manifest was
\* loaded; with the sync flow on, create_patch, add_new and update_patch are
\* called only after copy_work_tree and update_manifest returned; and when
\* update() raised, the test directory and the tree's VCS state are as the
\* run found them.
C18_CopyAfterUpdateAndPatchAfterCopy ==
  /\ (dest # frame.dest0 \/ clast.op = "copy") =>
       /\ Len(calls) >= 3
       /\ calls[3].fn = "copy_work_tree"
  /\ \A i \in DOMAIN calls :
       calls[i].fn = "copy_work_tree" =>
         /\ i = 3
         /\ calls[1].fn = "update" /\ mlast.op = "update" /\ mlast.exc = None
         /\ calls[2].fn = "load_test_manifest" /\ frame.initial_manifest.rev # Unset
  /\ \A i \in DOMAIN calls :
       (config.sync /\ calls[i].fn \in PatchOps) =>
         /\ i > 4
         /\ calls[3].fn = "copy_work_tree" /\ clast.op = "copy" /\ clast.exc = None
         /\ calls[4].fn = "update_manifest" /\ frame.new_manifest.rev # Unset
  /\ (mlast.op = "update" /\ mlast.exc # None) =>
       /\ dest = frame.dest0
       /\ VcsState(local_tree, wc) = frame.vcs0
       /\ Len(calls) = 1

\* the sync flow run to its end in a Mercurial working copy: the stale file
\* of the test directory is gone, the patch holds the new tests
C18_Witness ==
  /\ pc = "exited" /\ frame.exc = None /\ config.sync /\ local_tree.cls = "HgTree"
  /\ frame.dest0 = {<<"old.html">>} /\ <<"old.html">> \notin dest /\ <<"a.html">> \in dest
  /\ Called("update_patch", "sync")
  /\ Len(wc.hseries) >= 1 /\ "test" \in wc.hseries[1].paths

\* C19: with a GitTree, every commit update_patch makes in the metadata flow
\* is on the branch named after the metadata patch, also when the metadata
\* flow's create_patch failed because that branch exists already.
C19_MetadataCommitsOnMetadataBranch ==
  (pc = "exited" /\ local_tree.cls = "GitTree" /\ frame.exc = None
     /\ Called("update_patch", "metadata")) =>
    /\ Len(wc.gcommits) >= 1
    /\ wc.gcommits[Len(wc.gcommits)].branch = MetaPatchName(rev(clone))

====
